---------------------------- MODULE Spec2Model ----------------------------
(***************************************************************************)
(* Model of the geo-service query adaptation pipeline:                     *)
(*   - rewrite_request        (service.rs)   query text rewriter           *)
(*   - process_request        (service.rs)   data-query forwarding         *)
(*   - replace_subgraph_id    (status.rs)    response identifier rewriter  *)
(*   - status                 (status.rs)    status endpoint handler       *)
(*   - cost                   (cost.rs)      cost endpoint handler         *)
(*                                                                         *)
(* Query texts are sequences of one-character strings, so that the three  *)
(* regular expressions of rewrite_request are modelled character by        *)
(* character.                                                              *)
(***************************************************************************)
EXTENDS Integers, Sequences, FiniteSets, TLC

VARIABLES
    \* --- rewriter harness (SpecRewrite)
    rwQuery,      \* the request JSON handed to rewrite_request
    rwOnce,       \* rewrite_request(rwQuery)
    rwTwice,      \* rewrite_request(rewrite_request(rwQuery))
    rwPc,         \* "start" | "once" | "twice"
    \* --- identifier rewriter harness (SpecReplace)
    idIn,         \* the JSON tree handed to replace_subgraph_id
    idOut,        \* the tree afterwards
    idPc,         \* "start" | "done"
    \* --- the service (Spec): one request through one handler
    pc,           \* "idle" | "status_await" | "data_await" | "data_body" | "done"
    endpoint,     \* "none" | "status" | "data" | "cost"
    request,      \* the inbound request
    sent,         \* sequence of bodies POSTed to the backend
    reply,        \* the backend response being processed
    baseUrl,      \* GeoServiceState.geo_node_query_base_url
    outcome       \* what the handler returned

rwVars == <<rwQuery, rwOnce, rwTwice, rwPc>>
idVars == <<idIn, idOut, idPc>>
svcVars == <<pc, endpoint, request, sent, reply, baseUrl, outcome>>
vars == <<rwQuery, rwOnce, rwTwice, rwPc, idIn, idOut, idPc,
          pc, endpoint, request, sent, reply, baseUrl, outcome>>

---------------------------------------------------------------------------
(* Characters and text helpers                                             *)

\* \s of the regex crate (the ASCII members are enough for the inputs used)
IsWs(c) == c \in {" ", "\t", "\n", "\r"}

CharAt(s, i) == IF i >= 1 /\ i <= Len(s) THEN s[i] ELSE "<eof>"

\* greedy \s* from position i: the first position >= i that is not whitespace
RECURSIVE SkipWs(_, _)
SkipWs(s, i) == IF i <= Len(s) /\ IsWs(s[i]) THEN SkipWs(s, i + 1) ELSE i

\* the literal lit occurs in s at position i
HasLit(s, i, lit) ==
    /\ i >= 1
    /\ i + Len(lit) - 1 <= Len(s)
    /\ \A k \in 1..Len(lit) : s[i + k - 1] = lit[k]

\* first position >= i holding character c, or 0
RECURSIVE FindChar(_, _, _)
FindChar(s, i, c) ==
    IF i > Len(s) THEN 0
    ELSE IF s[i] = c THEN i
    ELSE FindChar(s, i + 1, c)

RECURSIVE Cat(_)
Cat(ts) == IF ts = <<>> THEN <<>> ELSE Head(ts) \o Cat(Tail(ts))

LitBlock == <<"b", "l", "o", "c", "k">>
LitNull == <<"n", "u", "l", "l">>

---------------------------------------------------------------------------
(* rewrite_request: the three regexes, leftmost-first, non-overlapping     *)

\* `(null|\{[^}]*\})` at position i: the position after the value, or 0
BlockValueEnd(s, i) ==
    IF HasLit(s, i, LitNull) THEN i + 4
    ELSE IF CharAt(s, i) = "{"
         THEN LET c == FindChar(s, i + 1, "}") IN IF c = 0 THEN 0 ELSE c + 1
         ELSE 0

\* `\s*,?\s*block\s*:\s*(null|\{[^}]*\})\s*,?` anchored at i:
\* the position after the match, or 0 when there is no match at i
MatchBlockAt(s, i) ==
    LET j1 == SkipWs(s, i)
        j2 == IF CharAt(s, j1) = "," THEN j1 + 1 ELSE j1
        j3 == SkipWs(s, j2)
    IN  IF ~HasLit(s, j3, LitBlock) THEN 0
        ELSE LET j4 == SkipWs(s, j3 + 5) IN
             IF CharAt(s, j4) # ":" THEN 0
             ELSE LET e == BlockValueEnd(s, SkipWs(s, j4 + 1)) IN
                  IF e = 0 THEN 0
                  ELSE LET j6 == SkipWs(s, e) IN
                       IF CharAt(s, j6) = "," THEN j6 + 1 ELSE j6

\* `\(\s*,\s*` anchored at i
MatchOpenCommaAt(s, i) ==
    IF CharAt(s, i) # "(" THEN 0
    ELSE LET j == SkipWs(s, i + 1) IN
         IF CharAt(s, j) = "," THEN SkipWs(s, j + 1) ELSE 0

\* `\(\s*\)` anchored at i
MatchEmptyParensAt(s, i) ==
    IF CharAt(s, i) # "(" THEN 0
    ELSE LET j == SkipWs(s, i + 1) IN
         IF CharAt(s, j) = ")" THEN j + 1 ELSE 0

\* replace_all(query_str, "") of the first regex, scanning from i
RECURSIVE StripBlockFrom(_, _)
StripBlockFrom(s, i) ==
    IF i > Len(s) THEN <<>>
    ELSE LET e == MatchBlockAt(s, i) IN
         IF e # 0 THEN StripBlockFrom(s, e)
         ELSE <<s[i]>> \o StripBlockFrom(s, i + 1)

\* replace_all(&cleaned, "(") of the second regex, scanning from i
RECURSIVE CollapseOpenFrom(_, _)
CollapseOpenFrom(s, i) ==
    IF i > Len(s) THEN <<>>
    ELSE LET e == MatchOpenCommaAt(s, i) IN
         IF e # 0 THEN <<"(">> \o CollapseOpenFrom(s, e)
         ELSE <<s[i]>> \o CollapseOpenFrom(s, i + 1)

\* replace_all(&cleaned, "") of the third regex, scanning from i
RECURSIVE DropEmptyFrom(_, _)
DropEmptyFrom(s, i) ==
    IF i > Len(s) THEN <<>>
    ELSE LET e == MatchEmptyParensAt(s, i) IN
         IF e # 0 THEN DropEmptyFrom(s, e)
         ELSE <<s[i]>> \o DropEmptyFrom(s, i + 1)

\* the cleaned query string
CleanQuery(q) == DropEmptyFrom(CollapseOpenFrom(StripBlockFrom(q, 1), 1), 1)

\* A request JSON object: [query, variables]; a field is a tagged value
\*   [t |-> "absent"], [t |-> "str", s |-> chars], [t |-> "num", n |-> 0]
JAbsent == [t |-> "absent"]
JStr(s) == [t |-> "str", s |-> s]
JNum(n) == [t |-> "num", n |-> n]

rewrite_request(value) ==
    IF value.query.t = "str"
    THEN [value EXCEPT !.query = JStr(CleanQuery(value.query.s))]
    ELSE value


---------------------------------------------------------------------------
(* Query texts used as inputs                                              *)

tFoo == <<"f", "o", "o">>
tLP == <<"(">>
tRP == <<")">>
tSp == <<" ">>
tComma == <<",">>
tFirst == <<"f", "i", "r", "s", "t", ":", " ", "1", "0">>
\* block: null
tBlockNull == <<"b", "l", "o", "c", "k", ":", " ", "n", "u", "l", "l">>
\* block: {number: 5}
tBlockObj == <<"b", "l", "o", "c", "k", ":", " ", "{", "n", "u", "m", "b", "e", "r", ":", " ", "5", "}">>
\* block: {a: {b: 1}}
tBlockNested == <<"b", "l", "o", "c", "k", ":", " ", "{", "a", ":", " ", "{", "b", ":", " ", "1", "}", "}">>
\* block: {hash: "0x"}
tBlockHash == <<"b", "l", "o", "c", "k", ":", " ", "{", "h", "a", "s", "h", ":", " ", "\"", "0", "x", "\"", "}">>

Toks == {tFoo, tLP, tRP, tSp, tComma, tFirst, tBlockNull, tBlockObj, tBlockNested}

\* foo(block: {number: 5}, first: 10)
ExBlockFirst == Cat(<<tFoo, tLP, tBlockObj, tComma, tSp, tFirst, tRP>>)
\* foo(first: 10, block: {number: 5})
ExBlockLast == Cat(<<tFoo, tLP, tFirst, tComma, tSp, tBlockObj, tRP>>)
\* foo(block: null)
ExBlockOnly == Cat(<<tFoo, tLP, tBlockNull, tRP>>)
\* foo(block: {a: {b: 1}})
ExBlockNested == Cat(<<tFoo, tLP, tBlockNested, tRP>>)
\* { foo(block: {hash: "0x"}) { id } }
ExBlockHash == <<"{", " ">> \o tFoo \o tLP \o tBlockHash \o tRP
                 \o <<" ", "{", " ", "i", "d", " ", "}", " ", "}">>
\* { foo { id } }
ExNoBlock == <<"{", " ">> \o tFoo \o <<" ", "{", " ", "i", "d", " ", "}", " ", "}">>
\* foo(first: 10)
FooFirst == Cat(<<tFoo, tLP, tFirst, tRP>>)

Examples == {ExBlockFirst, ExBlockLast, ExBlockOnly, ExBlockNested, ExBlockHash, ExNoBlock}

\* the longest token sequence enumerated
MaxToks == 4

TokSeqs == UNION {[1..k -> Toks] : k \in 0..MaxToks}

QueryTexts == {Cat(ts) : ts \in TokSeqs} \cup Examples

\* the `variables` member of a request: absent, or a string that itself looks
\* like a block argument (it must pass through untouched)
VariablesSample == {JAbsent, JStr(tBlockNull)}

\* request JSON objects: query a string, a non-string, or absent
RewriteInputs ==
    [query : {JStr(q) : q \in QueryTexts} \cup {JAbsent, JNum(1)},
     variables : VariablesSample]

---------------------------------------------------------------------------
(* Values of the variables a specification does not use                    *)

Idle == [t |-> "idle"]

RwIdle == rwQuery = Idle /\ rwOnce = Idle /\ rwTwice = Idle /\ rwPc = "off"
IdIdle == idIn = Idle /\ idOut = Idle /\ idPc = "off"
SvcIdle ==
    /\ pc = "off"
    /\ endpoint = "none"
    /\ request = Idle
    /\ sent = <<>>
    /\ reply = Idle
    /\ baseUrl = Idle
    /\ outcome = Idle

---------------------------------------------------------------------------
(* SpecRewrite: rewrite_request applied once, then again to its result     *)

InitRewrite ==
    /\ rwQuery \in RewriteInputs
    /\ rwOnce = Idle
    /\ rwTwice = Idle
    /\ rwPc = "start"
    /\ IdIdle
    /\ SvcIdle

RewriteOnce ==
    /\ rwPc = "start"
    /\ rwOnce' = rewrite_request(rwQuery)
    /\ rwPc' = "once"
    /\ UNCHANGED <<rwQuery, rwTwice, idVars, svcVars>>

RewriteAgain ==
    /\ rwPc = "once"
    /\ rwTwice' = rewrite_request(rwOnce)
    /\ rwPc' = "twice"
    /\ UNCHANGED <<rwQuery, rwOnce, idVars, svcVars>>

NextRewrite == RewriteOnce \/ RewriteAgain

SpecRewrite == InitRewrite /\ [][NextRewrite]_vars

\* lit occurs somewhere in s
Contains(s, lit) == \E i \in 1..Len(s) : HasLit(s, i, lit)

\* the texts built from Toks: every brace in them belongs to the balanced
\* object literal of a block argument
TokenTexts == {Cat(ts) : ts \in TokSeqs}

\* C1: rewrite_request is idempotent on the query text: rewriting the
\* rewritten request gives the same `query` as rewriting once.
C1_Idempotent == rwPc = "twice" => rwTwice.query = rwOnce.query

\* C2: a leading block argument followed by other arguments leaves exactly
\* the remaining arguments, with nothing between `(` and the first of them
\* (`foo(block: {number: 5}, first: 10)` gives `foo(first: 10)`), and a
\* field whose only argument is a block argument gives the bare field name.
C2_BlockStripping ==
    rwPc = "once" /\ rwQuery.query.t = "str" =>
        \A b \in {tBlockNull, tBlockObj} :
            /\ rwQuery.query.s = Cat(<<tFoo, tLP, b, tComma, tSp, tFirst, tRP>>)
                   => rwOnce.query = JStr(FooFirst)
            /\ rwQuery.query.s = Cat(<<tFoo, tLP, b, tRP>>)
                   => rwOnce.query = JStr(tFoo)

\* C3: a block argument whose value is an object literal, nested object
\* literals included, is removed up to its matching closing brace: no
\* `block` token and no `}` of the block value remain in the rewritten query.
C3_BalancedBlockRemoved ==
    rwPc = "once" /\ rwQuery.query.t = "str" /\ rwQuery.query.s \in TokenTexts =>
        /\ ~Contains(rwOnce.query.s, LitBlock)
        /\ ~Contains(rwOnce.query.s, <<"}">>)

---------------------------------------------------------------------------
(* replace_subgraph_id: JSON trees                                         *)

\* serde_json::Value: a string, a number, an object (its entries in map
\* order, each [k, v]) or an array
VStr(x) == [t |-> "str", v |-> x]
VNum(n) == [t |-> "num", v |-> n]
VObj(es) == [t |-> "obj", v |-> es]
VArr(xs) == [t |-> "arr", v |-> xs]
Entry(k, x) == [k |-> k, v |-> x]

\* the two identifiers of status.rs
OldId == "geo"
NewId == "QmVfNm8Jok8fFtspmFYYGTo5Sp7BvP3nYr6UHvDrLe6ewp"

\* a faulty variant of replace_subgraph_id (C6 must tell it apart): every
\* string equal to old is substituted, whatever its key
RECURSIVE replace_any_string(_, _, _)
replace_any_string(value, old, new) ==
    IF value.t = "obj"
    THEN VObj([i \in 1..Len(value.v) |->
                 Entry(value.v[i].k, replace_any_string(value.v[i].v, old, new))])
    ELSE IF value.t = "arr"
    THEN VArr([i \in 1..Len(value.v) |-> replace_any_string(value.v[i], old, new)])
    ELSE IF value = VStr(old) THEN VStr(new) ELSE value

RECURSIVE replace_subgraph_id(_, _, _)
replace_subgraph_id(value, old, new) ==
    IF value.t = "obj"
    THEN LET walked == [i \in 1..Len(value.v) |->
                          Entry(value.v[i].k,
                                replace_subgraph_id(value.v[i].v, old, new))]
         IN  VObj([i \in 1..Len(walked) |->
                     IF walked[i].k = "subgraph" /\ walked[i].v = VStr(old)
                     THEN Entry("subgraph", VStr(new))
                     ELSE walked[i]])
    ELSE IF value.t = "arr"
    THEN VArr([i \in 1..Len(value.v) |-> replace_subgraph_id(value.v[i], old, new)])
    ELSE value

\* --- input trees
Leaves == {VStr(OldId), VStr("other"), VNum(1)}

\* what stands beside a deep child in an object or an array
Siblings == {VStr(OldId), VObj(<<Entry("subgraph", VStr(OldId))>>)}

\* the deepest tree enumerated
MaxDepth == 3

RECURSIVE Trees(_)
Trees(d) ==
    IF d = 0 THEN Leaves
    ELSE LET sub == Trees(d - 1) IN
         Leaves
         \cup {VObj(<<>>), VArr(<<>>)}
         \cup {VObj(<<Entry(k, x)>>) : k \in {"id", "subgraph"}, x \in sub}
         \cup {VObj(<<Entry("id", x), Entry("subgraph", y)>>) : x \in sub, y \in Siblings}
         \cup {VObj(<<Entry("id", y), Entry("subgraph", x)>>) : x \in sub, y \in Siblings}
         \cup {VArr(<<x>>) : x \in sub}
         \cup {VArr(<<x, y>>) : x \in sub, y \in Siblings}
         \cup {VArr(<<y, x>>) : x \in sub, y \in Siblings}

---------------------------------------------------------------------------
(* SpecReplace: replace_subgraph_id applied to a tree                      *)

InitReplace ==
    /\ idIn \in Trees(MaxDepth)
    /\ idOut = Idle
    /\ idPc = "start"
    /\ RwIdle
    /\ SvcIdle

Replace ==
    /\ idPc = "start"
    /\ idOut' = replace_subgraph_id(idIn, OldId, NewId)
    /\ idPc' = "done"
    /\ UNCHANGED <<idIn, rwVars, svcVars>>

NextReplace == Replace

SpecReplace == InitReplace /\ [][NextReplace]_vars

\* what C6 asks of an input tree a and its output b, stated entry by entry
RECURSIVE Substituted(_, _)
Substituted(a, b) ==
    IF a.t = "obj"
    THEN /\ b.t = "obj"
         /\ Len(b.v) = Len(a.v)
         /\ \A i \in 1..Len(a.v) :
               /\ b.v[i].k = a.v[i].k
               /\ IF a.v[i].k = "subgraph" /\ a.v[i].v = VStr(OldId)
                  THEN b.v[i].v = VStr(NewId)
                  ELSE Substituted(a.v[i].v, b.v[i].v)
    ELSE IF a.t = "arr"
    THEN /\ b.t = "arr"
         /\ Len(b.v) = Len(a.v)
         /\ \A i \in 1..Len(a.v) : Substituted(a.v[i], b.v[i])
    ELSE b = a

\* C6: after replace_subgraph_id every `subgraph` entry that held the string
\* old holds new, at any depth through objects and arrays, and every other
\* part of the tree (keys, structure, order, other values, strings equal to
\* old under other keys included) is as it was.
C6_IdentifierSubstitution == idPc = "done" => Substituted(idIn, idOut)

\* an object inside an array inside an object had its `subgraph` rewritten,
\* while a string equal to old under another key stayed
C6_Witness ==
    /\ idPc = "done"
    /\ idIn = VObj(<<Entry("id", VArr(<<VObj(<<Entry("id", VStr(OldId)),
                                              Entry("subgraph", VStr(OldId))>>)>>))>>)
    /\ idOut = VObj(<<Entry("id", VArr(<<VObj(<<Entry("id", VStr(OldId)),
                                               Entry("subgraph", VStr(NewId))>>)>>))>>)

---------------------------------------------------------------------------
(* The status endpoint: query documents and the root-field whitelist       *)

SUPPORTED_ROOT_FIELDS ==
    {"indexingStatuses", "chains", "latestBlock", "earliestBlock",
     "publicProofsOfIndexing", "entityChangesInBlock", "blockData",
     "cachedEthereumCalls", "subgraphFeatures", "apiVersions"}

\* the reserved literal of status.rs
VersionQuery == "{ version { version } }"

\* q::Selection: a plain field, or another selection kind
Field(n) == [sel |-> "field", name |-> n]
FragmentSpread == [sel |-> "fragment_spread", name |-> "F"]

\* q::Definition: Operation(Query | Mutation | Subscription | SelectionSet)
\* or Fragment, each with its root selection set
DefKinds == {"query", "mutation", "subscription", "selection_set", "fragment"}
Definition(kind, items) == [kind |-> kind, items |-> items]

\* what q::parse_query makes of `{ version { version } }`
VersionDoc == <<Definition("selection_set", <<Field("version")>>)>>

\* q::parse_query failed
ParseError == <<>>

\* the field names a generated document draws on: one on the whitelist, two off it
FieldSample == {"indexingStatuses", "unknownField", "secretField"}
Selections == {Field(n) : n \in FieldSample} \cup {FragmentSpread}

\* the number of selections of a generated document, over all its definitions
MaxSelections == 2

\* the documents with exactly n selections in all (every selection set non-empty)
RECURSIVE DocsOfSize(_)
DocsOfSize(n) ==
    IF n = 0 THEN {<<>>}
    ELSE UNION {
           {<<Definition(k, items)>> \o rest :
                k \in DefKinds, items \in [1..m -> Selections], rest \in DocsOfSize(n - m)}
           : m \in 1..n}

Docs == UNION {DocsOfSize(n) : n \in 1..MaxSelections}

\* a status request: its query text and what q::parse_query returns for it.
\* The text of a generated document is not spelled out: "document" stands for
\* a text, other than the reserved literal, that parses to `parse`.
StatusRequests ==
    {[query |-> VersionQuery, parse |-> VersionDoc],
     [query |-> "{version{version}}", parse |-> VersionDoc],
     [query |-> "{ indexingStatuses {", parse |-> ParseError]}
    \cup {[query |-> "document", parse |-> d] : d \in Docs}

\* a faulty variant of IsVersionQuery (C8 must tell it apart): the literal
\* compared against has lost its spaces
IsVersionQueryCompact(req) == req.query = "{version{version}}"

\* request.query == "{ version { version } }"
IsVersionQuery(req) == req.query = VersionQuery

\* a faulty variant of IsRootSet (C4 must tell it apart): fragments are not
\* taken as root selection sets
IsRootSetNoFragments(def) == def.kind \in {"query", "selection_set"}

\* the definitions whose selection set the filter_map keeps
IsRootSet(def) == def.kind \in {"query", "selection_set", "fragment"}

\* the field names of one selection set (a HashSet)
SetFieldNames(items) ==
    {items[i].name : i \in {j \in 1..Len(items) : items[j].sel = "field"}}

\* every order in which a set can be iterated
Orderings(S) ==
    {f \in [1..Cardinality(S) -> S] : \A i, j \in 1..Cardinality(S) : i # j => f[i] # f[j]}

\* unsupported_root_fields: per root selection set, in document order, the
\* names off the whitelist in the HashSet's iteration order (any order)
RECURSIVE UnsupportedFrom(_, _)
UnsupportedFrom(doc, d) ==
    IF d > Len(doc) THEN {<<>>}
    ELSE LET here == IF IsRootSet(doc[d])
                     THEN SetFieldNames(doc[d].items) \ SUPPORTED_ROOT_FIELDS
                     ELSE {}
         IN  {o \o rest : o \in Orderings(here), rest \in UnsupportedFrom(doc, d + 1)}

UnsupportedRootFields(doc) == UnsupportedFrom(doc, 1)

\* --- what the backend may answer to a status call (send_graphql)
StatusDataSample ==
    {VObj(<<Entry("indexingStatuses",
                  VArr(<<VObj(<<Entry("health", VStr("healthy")),
                                Entry("subgraph", VStr(OldId))>>)>>))>>),
     VObj(<<Entry("chains", VArr(<<VObj(<<Entry("network", VStr(OldId))>>)>>))>>)}

StatusErrorsSample == {<<"no such deployment">>}

BackendStatusResults ==
    {[t |-> "request_error"], [t |-> "empty"]}
    \cup {[t |-> "data", data |-> d] : d \in StatusDataSample}
    \cup {[t |-> "failure", errors |-> e] : e \in StatusErrorsSample}

---------------------------------------------------------------------------
(* Handler results                                                         *)

VNull == [t |-> "null", v |-> "null"]

\* Ok(Json(value)) of the status handler
OkJson(value) == [t |-> "ok", json |-> value]
\* Err(GeoServiceError::<error>(detail))
Err(error, detail) == [t |-> "err", error |-> error, detail |-> detail]
\* the handler's task panicked
Panicked == [t |-> "panic"]

\* json!({"data": {}, "errors": null})
VersionPayload == VObj(<<Entry("data", VObj(<<>>)), Entry("errors", VNull)>>)

---------------------------------------------------------------------------
(* routes::status                                                          *)

\* the handler up to its first await: the version short-circuit, parsing,
\* the whitelist check, and the POST of the request as it came
status(req) ==
    /\ pc = "idle"
    /\ endpoint' = "status"
    /\ request' = req
    /\ IF IsVersionQuery(req)
       THEN /\ outcome' = OkJson(VersionPayload)
            /\ pc' = "done"
            /\ UNCHANGED sent
       ELSE IF req.parse = ParseError
       THEN /\ outcome' = Err("InvalidStatusQuery", <<>>)
            /\ pc' = "done"
            /\ UNCHANGED sent
       ELSE IF UnsupportedRootFields(req.parse) # {<<>>}
       THEN /\ \E fields \in UnsupportedRootFields(req.parse) :
                  outcome' = Err("UnsupportedStatusQueryFields", fields)
            /\ pc' = "done"
            /\ UNCHANGED sent
       ELSE /\ sent' = Append(sent, [url |-> "geo_node_status_url", body |-> req])
            /\ pc' = "status_await"
            /\ UNCHANGED outcome
    /\ UNCHANGED <<reply, baseUrl, rwVars, idVars>>

\* the handler after send_graphql(..).await, for a backend result r
status_result(r) ==
    /\ pc = "status_await"
    /\ reply' = r
    /\ outcome' =
         IF r.t = "request_error" THEN Err("StatusQueryError", <<>>)
         ELSE IF r.t = "data"
              THEN OkJson(VObj(<<Entry("data", replace_subgraph_id(r.data, OldId, NewId))>>))
         ELSE IF r.t = "failure"
              THEN OkJson(VObj(<<Entry("errors", VArr([i \in 1..Len(r.errors) |->
                                                        VStr(r.errors[i])]))>>))
         ELSE Panicked  \* ResponseError::Empty => todo!()
    /\ pc' = "done"
    /\ UNCHANGED <<endpoint, request, sent, baseUrl, rwVars, idVars>>

StatusReceive == pc = "idle" /\ \E req \in StatusRequests : status(req)
StatusReply == pc = "status_await" /\ \E r \in BackendStatusResults : status_result(r)

---------------------------------------------------------------------------
(* routes::cost                                                            *)

cost(req) ==
    /\ pc = "idle"
    /\ endpoint' = "cost"
    /\ request' = req
    /\ outcome' = [t |-> "ok", text |-> "{}"]
    /\ pc' = "done"
    /\ UNCHANGED <<sent, reply, baseUrl, rwVars, idVars>>

CostReceive == \E req \in {[query |-> VersionQuery, parse |-> VersionDoc]} : cost(req)

---------------------------------------------------------------------------
(* GeoService::process_request                                             *)

\* geo_node_query_base_url as configured: Url::parse of "<base>/graphql"
\* fails for a base without a scheme
BaseUrls == {[text |-> "http://geo-node:8000", absolute |-> TRUE],
             [text |-> "geo-node:8000", absolute |-> FALSE]}

UrlParses(base) == base.absolute

Deployments == {"QmDeployment"}

DataRequests ==
    [query : {JStr(q) : q \in Examples} \cup {JAbsent},
     variables : VariablesSample]

\* the `graph-attestable` response header: absent, bytes that are not
\* visible ASCII (HeaderValue::to_str fails), or a text
Headers ==
    {[t |-> "absent"], [t |-> "opaque"]}
    \cup {[t |-> "ascii", v |-> x] : x \in {"true", "false", "yes", "TRUE", ""}}

\* headers().get("graph-attestable").map_or(true, |value| ...)
attestable_of(header) ==
    IF header.t = "absent" THEN TRUE
    ELSE IF header.t = "opaque" THEN TRUE  \* unwrap_or(true)
    ELSE header.v = "true"

BodyTexts == {"{\"data\":{}}", "{\"errors\":[]}"}

\* what send().await gives
SendResults == {[t |-> "send_error"]} \cup {[t |-> "response", header |-> h] : h \in Headers}

\* what response.text().await gives
TextResults == {[t |-> "read_error"]} \cup {[t |-> "text", text |-> b] : b \in BodyTexts}

\* a faulty variant of forwarded_body (C9 must tell it apart): the request is
\* forwarded as it came
forwarded_verbatim(req) == req

\* the body handed to .json(..)
forwarded_body(req) == rewrite_request(req)

\* up to send().await
process_request(deployment, req) ==
    /\ pc = "idle"
    /\ endpoint' = "data"
    /\ request' = req
    /\ IF ~UrlParses(baseUrl)
       THEN /\ outcome' = Err("InvalidDeployment", <<deployment>>)
            /\ pc' = "done"
            /\ UNCHANGED sent
       ELSE /\ sent' = Append(sent, [url |-> <<baseUrl.text, "/graphql">>,
                                     body |-> forwarded_body(req)])
            /\ pc' = "data_await"
            /\ UNCHANGED outcome
    /\ UNCHANGED <<reply, baseUrl, rwVars, idVars>>

\* after send().await, up to text().await
process_request_sent(r) ==
    /\ pc = "data_await"
    /\ IF r.t = "send_error"
       THEN /\ outcome' = Err("QueryForwardingError", <<>>)
            /\ pc' = "done"
            /\ reply' = r
       ELSE /\ reply' = [t |-> "response", header |-> r.header,
                         attestable |-> attestable_of(r.header),
                         body |-> [t |-> "unread"]]
            /\ pc' = "data_body"
            /\ UNCHANGED outcome
    /\ UNCHANGED <<endpoint, request, sent, baseUrl, rwVars, idVars>>

\* after text().await
process_request_body(b) ==
    /\ pc = "data_body"
    /\ outcome' =
         IF b.t = "read_error" THEN Err("QueryForwardingError", <<>>)
         ELSE [t |-> "ok", request |-> request,
               response |-> [inner |-> b.text, attestable |-> reply.attestable]]
    /\ reply' = [reply EXCEPT !.body = b]
    /\ pc' = "done"
    /\ UNCHANGED <<endpoint, request, sent, baseUrl, rwVars, idVars>>

DataReceive == pc = "idle" /\ \E d \in Deployments, req \in DataRequests : process_request(d, req)
DataSent == pc = "data_await" /\ \E r \in SendResults : process_request_sent(r)
DataBody == pc = "data_body" /\ \E b \in TextResults : process_request_body(b)

---------------------------------------------------------------------------
(* Spec: one request through the service                                   *)

Init ==
    /\ pc = "idle"
    /\ endpoint = "none"
    /\ request = Idle
    /\ sent = <<>>
    /\ reply = Idle
    /\ baseUrl \in BaseUrls
    /\ outcome = Idle
    /\ RwIdle
    /\ IdIdle

Next ==
    \/ StatusReceive
    \/ StatusReply
    \/ CostReceive
    \/ DataReceive
    \/ DataSent
    \/ DataBody

Spec == Init /\ [][Next]_vars

---------------------------------------------------------------------------
(* Properties of the service                                               *)

Range(f) == {f[i] : i \in DOMAIN f}

\* the names of the plain fields standing directly in the selection sets of
\* the definitions of the given kinds
RootFieldNames(doc, kinds) ==
    {n \in FieldSample \cup {"version"} :
        \E d \in 1..Len(doc) :
            /\ doc[d].kind \in kinds
            /\ \E i \in 1..Len(doc[d].items) : doc[d].items[i] = Field(n)}

\* C4: for a query that parses, validation succeeds (the backend call is
\* issued) exactly when every plain field of the root selection sets of query
\* operations, bare selection sets and fragments is on the whitelist; when it
\* fails, UnsupportedStatusQueryFields lists all and only the offending names.
C4_WhitelistValidation ==
    endpoint = "status" /\ ~IsVersionQuery(request) /\ request.parse # ParseError =>
        LET offenders == RootFieldNames(request.parse,
                                        {"query", "selection_set", "fragment"})
                            \ SUPPORTED_ROOT_FIELDS
        IN  /\ offenders = {} <=> Len(sent) = 1
            /\ offenders # {} =>
                  /\ pc = "done"
                  /\ outcome.t = "err"
                  /\ outcome.error = "UnsupportedStatusQueryFields"
                  /\ Range(outcome.detail) = offenders

\* `{ unknownField secretField }` was rejected naming both fields
C4_Witness ==
    /\ endpoint = "status"
    /\ pc = "done"
    /\ request.parse = <<Definition("selection_set",
                                    <<Field("unknownField"), Field("secretField")>>)>>
    /\ outcome.t = "err"
    /\ outcome.error = "UnsupportedStatusQueryFields"
    /\ Range(outcome.detail) = {"unknownField", "secretField"}
    /\ sent = <<>>

\* C5: every status request sent to the backend has all its root fields, those
\* of any operation (whatever its kind) or fragment, on the whitelist.
C5_WhitelistIsBoundary ==
    endpoint = "status" /\ Len(sent) >= 1 =>
        RootFieldNames(request.parse, DefKinds) \subseteq SUPPORTED_ROOT_FIELDS

\* C7: the envelope's attestable flag is false only when the response carries
\* a `graph-attestable` header equal to "false"; absent, not UTF-8, "true" or
\* any other value give true.
C7_AttestableDefault ==
    endpoint = "data" /\ pc = "done" /\ outcome.t = "ok" =>
        (outcome.response.attestable = FALSE
            <=> reply.header = [t |-> "ascii", v |-> "false"])

\* C8: a status request whose query text is exactly the reserved literal ends
\* with {"data":{},"errors":null}, and no backend call is issued for it.
C8_VersionShortCircuit ==
    endpoint = "status" /\ request.query = VersionQuery =>
        /\ pc = "done"
        /\ outcome = OkJson(VersionPayload)
        /\ sent = <<>>
        /\ reply = Idle

C8_Witness ==
    /\ endpoint = "status"
    /\ request.query = VersionQuery
    /\ pc = "done"
    /\ outcome.t = "ok"
    /\ outcome.json = VObj(<<Entry("data", VObj(<<>>)), Entry("errors", VNull)>>)

C10_StatusOutcomes ==
    endpoint = "status" /\ Len(sent) >= 1 =>
        /\ Len(sent) = 1
        /\ pc = "done" =>
              \/ outcome.t = "ok" /\ reply.t \in {"data", "failure"}
              \/ /\ outcome.t = "err"
                 /\ outcome.error = "StatusQueryError"
                 /\ reply.t = "request_error"

===========================================================================
